---- MODULE Spec2Model ----
(***************************************************************************)
(* Model of NetrexMC/BinaryUtil.                                           *)
(*                                                                         *)
(*   - the Cursor Buffer (src/src/stream.rs, BinaryStream): the fields     *)
(*     buffer, offset, bounds of one stream `b`, the stream returned by    *)
(*     the last clamp call, and one action per method / index operator;    *)
(*   - the Codec Protocol (src/src/lib.rs, trait Streamable): parse and    *)
(*     compose of the supplied implementations as operators over byte      *)
(*     sequences, applied by the actions of CodecSpec to a source and an   *)
(*     external cursor.                                                    *)
(*                                                                         *)
(* A Rust panic unwinds out of the call: the action that panics records    *)
(* the failure, leaves in the stream what the call had written before it   *)
(* panicked, and clears `alive`, after which no operation is enabled.      *)
(***************************************************************************)
EXTENDS Integers, Sequences, FiniteSets, TLC

VARIABLES
    buffer,     \* BinaryStream.buffer of b  (Seq of bytes)
    offset,     \* BinaryStream.offset of b
    bounds,     \* BinaryStream.bounds of b  (<<lower, upper>>)
    view,       \* the stream returned by the last b.clamp(k) call: <<>> or <<c>>
    last,       \* the last operation called, its arguments and its outcome
    alive,      \* FALSE once an operation has panicked
    source,     \* codec: the byte source handed to compose
    position,   \* codec: the caller's cursor
    result,     \* codec: the compose calls made so far, with their outcomes
    encoded     \* codec: the values whose encodings were appended to source

vars == <<buffer, offset, bounds, view, last, alive, source, position, result, encoded>>
streamVars == <<buffer, offset, bounds, view, last, alive>>
codecVars == <<source, position, result, encoded>>

(***************************************************************************)
(* Bounds of the model.                                                    *)
(***************************************************************************)
MaxBuf == 2        \* longest initial buffer given to new
MaxLen == 3        \* longest buffer allocate may produce
MaxAlloc == 1      \* largest argument of allocate

StreamBytes == {0, 1}

RECURSIVE SeqsUpTo(_, _)
SeqsUpTo(S, n) ==
    IF n = 0 THEN {<<>>}
    ELSE LET shorter == SeqsUpTo(S, n - 1)
         IN  shorter \cup {Append(s, x) : s \in {t \in shorter : Len(t) = n - 1}, x \in S}

(***************************************************************************)
(* Cursor Buffer: BinaryStream, src/src/stream.rs                          *)
(***************************************************************************)
Self == [buffer |-> buffer, offset |-> offset, bounds |-> bounds]

\* BinaryStream::new
new(buf) == [buffer |-> buf, offset |-> 0, bounds |-> <<0, Len(buf)>>]

\* BinaryStream::is_within_bounds
is_within_bounds(s, o) ==
    ~(o > s.bounds[2] \/ o < s.bounds[1] \/ o > Len(s.buffer))

Returned(r) == [ok |-> TRUE, ret |-> r]
Panicked == [ok |-> FALSE, ret |-> <<>>]

\* Index<usize>::index: panics outside the bounds, then buffer.get(idx).unwrap()
index(s, idx) ==
    IF ~is_within_bounds(s, idx) THEN Panicked
    ELSE IF idx < Len(s.buffer) THEN Returned(<<s.buffer[idx + 1]>>)
    ELSE Panicked

\* Index<Range<usize>>::index
index_range(s, start, end) ==
    IF ~is_within_bounds(s, end) \/ ~is_within_bounds(s, start) THEN Panicked
    ELSE IF start <= end /\ end <= Len(s.buffer)
         THEN Returned(SubSeq(s.buffer, start + 1, end))
    ELSE Panicked

\* IndexMut<usize>::index_mut: the reference is handed out when the offset
\* is NOT within the bounds, and the call panics when it is.
index_mut(s, off) ==
    IF ~is_within_bounds(s, off)
    THEN IF off < Len(s.buffer) THEN Returned(<<s.buffer[off + 1]>>) ELSE Panicked
    ELSE Panicked

Call(op, on, arg, r) == [op |-> op, on |-> on, arg |-> arg, ok |-> r.ok, ret |-> r.ret]

Init ==
    /\ \E buf \in SeqsUpTo(StreamBytes, MaxBuf) :
          /\ buffer = new(buf).buffer
          /\ offset = new(buf).offset
          /\ bounds = new(buf).bounds
    /\ view = <<>>
    /\ last = Call("new", "b", <<>>, Returned(<<>>))
    /\ alive = TRUE
    /\ source = <<>>
    /\ position = 0
    /\ result = <<>>
    /\ encoded = <<>>

\* a panic: the call unwinds and leaves b with the fields s, those it had
\* written before the panic; the stream is not used again
Panic(op, on, arg, s) ==
    /\ alive' = FALSE
    /\ last' = Call(op, on, arg, Panicked)
    /\ buffer' = s.buffer
    /\ offset' = s.offset
    /\ bounds' = s.bounds
    /\ UNCHANGED view

\* fn allocate(&mut self, bytes: usize)
Allocate ==
    \E bytes \in 0..MaxAlloc :
        /\ alive
        /\ Len(buffer) + bytes <= MaxLen
        /\ bounds' = <<bounds[1], Len(buffer) + bytes>>
        /\ buffer' = buffer \o [i \in 1..bytes |-> 0]
        /\ last' = Call("allocate", "b", <<bytes>>, Returned(<<>>))
        /\ UNCHANGED <<offset, view, alive>>

\* set_offset with the comparison off by one: an offset equal to bounds.1
\* is refused
SetOffsetBelowUpperOnly ==
    \E o \in 0..(MaxLen + 1) :
        /\ alive
        /\ IF o >= bounds[2]
           THEN /\ last' = Call("set_offset", "b", <<o>>, Returned(<<0>>))
                /\ UNCHANGED offset
           ELSE /\ offset' = o
                /\ last' = Call("set_offset", "b", <<o>>, Returned(<<1>>))
        /\ UNCHANGED <<buffer, bounds, view, alive>>

\* fn set_offset(&mut self, offset: usize) -> bool ; ret is <<1>> for true
SetOffset ==
    \E o \in 0..(MaxLen + 1) :
        /\ alive
        /\ IF o > bounds[2]
           THEN /\ last' = Call("set_offset", "b", <<o>>, Returned(<<0>>))
                /\ UNCHANGED offset
           ELSE /\ offset' = o
                /\ last' = Call("set_offset", "b", <<o>>, Returned(<<1>>))
        /\ UNCHANGED <<buffer, bounds, view, alive>>

\* fn increase_offset(&mut self, amount: Option<usize>) -> usize ; 0 stands for None
IncreaseOffset ==
    \E amount \in 0..2 :
        LET amnt == IF amount = 0 THEN 1 ELSE amount
        IN  /\ alive
            /\ IF (offset + amnt) > bounds[2]
               THEN Panic("increase_offset", "b", <<amnt>>, Self)
               ELSE /\ offset' = offset + amnt
                    /\ last' = Call("increase_offset", "b", <<amnt>>, Returned(<<offset + amnt>>))
                    /\ UNCHANGED <<buffer, bounds, view, alive>>

\* fn clamp(&mut self, offset: usize) -> Self
Clamp ==
    \E k \in 0..(MaxLen + 1) :
        /\ alive
        /\ IF k > Len(buffer)
           THEN Panic("clamp", "b", <<k>>, Self)
           ELSE /\ bounds' = <<k, bounds[2]>>
                /\ view' = <<new(buffer)>>
                /\ last' = Call("clamp", "b", <<k>>, Returned(<<>>))
                /\ UNCHANGED <<buffer, offset, alive>>

\* fn read(&mut self) -> u8 : self[self.offset]; self.clamp(self.offset);
\* self.increase_offset(None).  The stream clamp returns is dropped; a panic
\* of increase_offset comes after clamp has written bounds.0.
Read ==
    /\ alive
    /\ LET byte == index(Self, offset)
           clamped == [Self EXCEPT !.bounds = <<offset, bounds[2]>>]
       IN  IF ~byte.ok THEN Panic("read", "b", <<>>, Self)
           ELSE IF offset > Len(buffer) THEN Panic("read", "b", <<>>, Self)
           ELSE IF (offset + 1) > bounds[2] THEN Panic("read", "b", <<>>, clamped)
           ELSE /\ bounds' = <<offset, bounds[2]>>
                /\ offset' = offset + 1
                /\ last' = Call("read", "b", <<>>, byte)
                /\ UNCHANGED <<buffer, view, alive>>

\* stream[idx] on b or on the stream clamp returned
IndexByte ==
    \E idx \in 0..(MaxLen + 1), on \in {"b", "c"} :
        /\ alive
        /\ on = "c" => view # <<>>
        /\ LET s == IF on = "b" THEN Self ELSE view[1]
               r == index(s, idx)
           IN  IF r.ok
               THEN /\ last' = Call("index", on, <<idx>>, r)
                    /\ UNCHANGED <<buffer, offset, bounds, view, alive>>
               ELSE Panic("index", on, <<idx>>, Self)

\* stream[start..end] on b or on the stream clamp returned
IndexRange ==
    \E start \in 0..(MaxLen + 1), end \in 0..(MaxLen + 1), on \in {"b", "c"} :
        /\ alive
        /\ on = "c" => view # <<>>
        /\ LET s == IF on = "b" THEN Self ELSE view[1]
               r == index_range(s, start, end)
           IN  IF r.ok
               THEN /\ last' = Call("index_range", on, <<start, end>>, r)
                    /\ UNCHANGED <<buffer, offset, bounds, view, alive>>
               ELSE Panic("index_range", on, <<start, end>>, Self)

\* stream[off] = v on b or on the stream clamp returned
IndexMut ==
    \E off \in 0..(MaxLen + 1), v \in StreamBytes, on \in {"b", "c"} :
        /\ alive
        /\ on = "c" => view # <<>>
        /\ LET s == IF on = "b" THEN Self ELSE view[1]
               r == index_mut(s, off)
           IN  IF r.ok
               THEN /\ last' = Call("index_mut", on, <<off>>, Returned(<<v>>))
                    /\ IF on = "b"
                       THEN /\ buffer' = [buffer EXCEPT ![off + 1] = v]
                            /\ UNCHANGED view
                       ELSE /\ view' = <<[s EXCEPT !.buffer[off + 1] = v]>>
                            /\ UNCHANGED buffer
                    /\ UNCHANGED <<offset, bounds, alive>>
               ELSE Panic("index_mut", on, <<off>>, Self)

(***************************************************************************)
(* Codec Protocol: trait Streamable and its implementations, src/src/lib.rs *)
(*                                                                         *)
(* A value is modelled by the data the code handles: an integer for a      *)
(* fixed-width integer, a BOOLEAN for bool, the sequence of its bytes for  *)
(* a String (from_utf8_unchecked performs no check and no conversion), a   *)
(* sequence of element values for a Vec.  A type is the record             *)
(* [fam, of]: the implementation and, where it has one, the element type.  *)
(* compose returns [kind, val, pos]: kind is "ok" (Ok), "err" (Err) or     *)
(* "panic"; val holds the decoded value (<<v>>, or the elements of a Vec,  *)
(* or the bytes of a String); pos is the cursor the call leaves behind.    *)
(***************************************************************************)
MaxSrc == 3        \* longest source that is not the output of parse
MaxStr == 2        \* longest String encoded
MaxElems == 2      \* longest Vec encoded
MaxCount == 3      \* largest declared element count a Vec decode is run on
MaxEnc == 2        \* values encoded into one source
MaxOps == 2        \* compose calls on one source

CodecBytes == {0, 1, 2, 129}
StrChars == {65, 66}
AddrFill == {0, 1}
PrimTypes == {"u8", "i8", "u16", "i16", "i32"}

\* ::std::mem::size_of::<$ty>()
size_of(ty) ==
    CASE ty \in {"u8", "i8"} -> 1
      [] ty \in {"u16", "i16"} -> 2
      [] ty = "i32" -> 4

IsSigned(ty) == ty \in {"i8", "i16", "i32"}

Ty(fam, of) == [fam |-> fam, of |-> of]

RECURSIVE Pow256(_)
Pow256(n) == IF n = 0 THEN 1 ELSE 256 * Pow256(n - 1)

\* <$ty>::to_be_bytes: two's complement, most significant byte first
to_be_bytes(v, size) == [i \in 1..size |-> (v \div Pow256(size - i)) % 256]

RECURSIVE be_unsigned(_)
be_unsigned(bytes) ==
    IF bytes = <<>> THEN 0
    ELSE be_unsigned(SubSeq(bytes, 1, Len(bytes) - 1)) * 256 + bytes[Len(bytes)]

\* from_be_bytes with the sign bit ignored: every type decoded as unsigned
from_be_bytes_unsigned(bytes, signed) == be_unsigned(bytes)

\* <$ty>::from_be_bytes
from_be_bytes(bytes, signed) ==
    IF signed /\ bytes[1] >= 128
    THEN (bytes[1] - 256) * Pow256(Len(bytes) - 1) + be_unsigned(Tail(bytes))
    ELSE be_unsigned(bytes)

\* pub fn reverse_vec(bytes: Vec<u8>) -> Vec<u8>
reverse_vec(bytes) == [i \in 1..Len(bytes) |-> bytes[Len(bytes) + 1 - i]]

\* source[from..to] as a Rust slice (0-based, end exclusive)
Slice(src, from, to) == SubSeq(src, from + 1, to)

Ok(val, pos) == [kind |-> "ok", val |-> val, pos |-> pos]
Err(pos) == [kind |-> "err", val |-> <<>>, pos |-> pos]
PanicAt(pos) == [kind |-> "panic", val |-> <<>>, pos |-> pos]

\* VarInt<u32> (varint.rs): 7 bits per byte, low group first, top bit = more follow
RECURSIVE var_int_to_be_bytes(_)
var_int_to_be_bytes(n) ==
    IF n < 128 THEN <<n>>
    ELSE <<(n % 128) + 128>> \o var_int_to_be_bytes(n \div 128)

VarIntMaxUnits == 5

\* the bytes VarInt::from_be_bytes reads at the start of src: up to and
\* including the first one below 128, 0 when there is none
RECURSIVE var_int_units(_, _)
var_int_units(src, i) ==
    IF i > Len(src) \/ i > VarIntMaxUnits THEN 0
    ELSE IF src[i] < 128 THEN i
    ELSE var_int_units(src, i + 1)

RECURSIVE var_int_value(_, _)
var_int_value(src, n) ==
    IF n = 0 THEN 0
    ELSE var_int_value(Tail(src), n - 1) * 128 + (src[1] % 128)

\* VarInt::<u32>::from_be_bytes(source)
var_int_from_be_bytes(src) ==
    LET n == var_int_units(src, 1)
    IN  IF n = 0 THEN [ok |-> FALSE, value |-> 0]
        ELSE [ok |-> TRUE, value |-> var_int_value(src, n)]

\* VarInt::get_byte_length: the byte length of the encoded form of the value
get_byte_length(value) == Len(var_int_to_be_bytes(value))

\* impl_streamable_primitive!: parse
parse_primitive(ty, v) == to_be_bytes(v, size_of(ty))

\* impl_streamable_primitive!: compose
compose_primitive(ty, src, pos) ==
    LET size == size_of(ty)
    IN  IF size + pos > Len(src) THEN PanicAt(pos)
        ELSE Ok(<<from_be_bytes(Slice(src, pos, size + pos), IsSigned(ty))>>, pos + size)

\* <bool as Streamable>::parse
parse_bool(v) == <<IF v THEN 1 ELSE 0>>

\* <bool as Streamable>::compose
compose_bool(src, pos) ==
    IF pos >= Len(src) THEN PanicAt(pos)
    ELSE IF src[pos + 1] > 1 THEN Err(pos)
    ELSE Ok(<<src[pos + 1] = 1>>, pos + 1)

\* <String as Streamable>::parse
parse_string(s) == to_be_bytes(Len(s) % 65536, 2) \o s

\* <String as Streamable>::compose
compose_string(src, pos) ==
    IF pos + 2 > Len(src) THEN Err(pos)
    ELSE LET len == be_unsigned(Slice(src, pos, pos + 2))
             cur == pos + 2
         IN  IF len + cur > Len(src) THEN PanicAt(cur + len)
             ELSE Ok(Slice(src, 2, len + cur), cur + len)

\* T::compose for the T that LE<T> wraps in the model
compose_inner(of, src, pos) ==
    IF of = "bool" THEN compose_bool(src, pos) ELSE compose_primitive(of, src, pos)

parse_inner(of, v) ==
    IF of = "bool" THEN parse_bool(v) ELSE parse_primitive(of, v)

\* includes!(name, contains, ["u8", ..., "f64"]) on type_name::<T>()
IsListedName(of) == of \in PrimTypes

\* <LE<T> as Streamable>::parse
parse_le(of, v) == reverse_vec(parse_inner(of, v))

\* LE<T>::compose without the prefix of source in front of the reversed
\* span: T::compose runs on the span alone, at the caller's cursor
compose_le_span_only(of, src, pos) ==
    LET end == IF IsListedName(of) THEN pos + size_of(of) ELSE Len(src)
    IN  IF pos > end \/ end > Len(src) THEN PanicAt(pos)
        ELSE compose_inner(of, reverse_vec(Slice(src, pos, end)), pos)

\* <LE<T> as Streamable>::compose
compose_le(of, src, pos) ==
    LET end == IF IsListedName(of) THEN pos + size_of(of) ELSE Len(src)
    IN  IF pos > end \/ end > Len(src) THEN PanicAt(pos)
        ELSE LET stream == reverse_vec(Slice(src, pos, end))
                 hacked_stream == Slice(src, 0, pos) \o stream
             IN  compose_inner(of, hacked_stream, pos)

RECURSIVE Concat(_)
Concat(ss) == IF ss = <<>> THEN <<>> ELSE ss[1] \o Concat(Tail(ss))

\* impl_streamable_vec_primitive!: parse.  The prefix is VarInt(v.len()),
\* v being the output vector, which is empty at that point.
parse_vec_primitive(of, s) ==
    var_int_to_be_bytes(0) \o Concat([i \in 1..Len(s) |-> parse_primitive(of, s[i])])

RECURSIVE compose_elems(_, _, _, _, _)
compose_elems(of, src, pos, n, ret) ==
    IF n = 0 THEN Ok(ret, pos)
    ELSE LET e == compose_primitive(of, src, pos)
         IN  IF e.kind # "ok" THEN [e EXCEPT !.val = <<>>]
             ELSE compose_elems(of, src, e.pos, n - 1, Append(ret, e.val[1]))

\* impl_streamable_vec_primitive!: compose.  The varint is read from the
\* start of source, whatever the cursor is, and the cursor is advanced by
\* the byte length of the decoded value.
compose_vec_primitive(of, src, pos) ==
    LET varint == var_int_from_be_bytes(src)
    IN  IF ~varint.ok THEN Err(pos)
        ELSE compose_elems(of, src, pos + get_byte_length(varint.value), varint.value, <<>>)

\* <Vec<LE<T>> as Streamable>::parse
parse_vec_le(of, s) ==
    to_be_bytes(Len(s) % 65536, 2) \o Concat([i \in 1..Len(s) |-> parse_le(of, s[i])])

\* the loop of <Vec<LE<T>>>::compose: every element is composed from
\* source[*position..] with a fresh cursor 0; *position is not advanced.
RECURSIVE compose_le_elems(_, _, _, _, _)
compose_le_elems(of, src, pos, n, ret) ==
    IF n = 0 THEN Ok(ret, pos)
    ELSE LET e == compose_le(of, Slice(src, pos, Len(src)), 0)
         IN  IF e.kind # "ok" THEN [kind |-> e.kind, val |-> <<>>, pos |-> pos]
             ELSE compose_le_elems(of, src, pos, n - 1, Append(ret, e.val[1]))

\* <Vec<LE<T>> as Streamable>::compose.  The prefix is read by a Cursor
\* that starts at 0, whatever the caller's cursor is.
compose_vec_le(of, src, pos) ==
    IF Len(src) < 2 THEN Err(pos)
    ELSE compose_le_elems(of, src, 2, be_unsigned(Slice(src, 0, 2)), <<>>)

\* <SocketAddr as Streamable>::compose
compose_socket_addr(src, pos) ==
    IF pos >= Len(src) THEN Err(pos)
    ELSE LET tag == src[pos + 1]
             cur == pos + 1
         IN  CASE tag = 4 ->
                    IF cur + 6 > Len(src) THEN PanicAt(pos)
                    ELSE Ok(<<[ver |-> 4,
                               ip |-> Slice(src, cur, cur + 4),
                               port |-> be_unsigned(Slice(src, cur + 4, cur + 6))]>>,
                            cur + 6)
               [] tag = 6 ->
                    IF cur + 28 > Len(src) THEN PanicAt(pos)
                    ELSE Ok(<<[ver |-> 6,
                               port |-> be_unsigned(Slice(src, cur + 2, cur + 4)),
                               flow |-> be_unsigned(Slice(src, cur + 4, cur + 8)),
                               ip |-> [i \in 1..8 |->
                                         be_unsigned(Slice(src, cur + 6 + 2 * i, cur + 8 + 2 * i))],
                               scope |-> be_unsigned(Slice(src, cur + 24, cur + 28))]>>,
                            cur + 28)
               [] OTHER -> PanicAt(pos)

\* Streamable::compose, by implementation
compose(ty, src, pos) ==
    CASE ty.fam = "prim" -> compose_primitive(ty.of, src, pos)
      [] ty.fam = "bool" -> compose_bool(src, pos)
      [] ty.fam = "string" -> compose_string(src, pos)
      [] ty.fam = "le" -> compose_le(ty.of, src, pos)
      [] ty.fam = "vec" -> compose_vec_primitive(ty.of, src, pos)
      [] ty.fam = "vecle" -> compose_vec_le(ty.of, src, pos)
      [] ty.fam = "addr" -> compose_socket_addr(src, pos)

\* Streamable::fcompose: Self::compose(source, position).unwrap(), which
\* panics where compose returns Err, with the cursor as compose left it
fcompose(ty, src, pos) ==
    LET r == compose(ty, src, pos)
    IN  IF r.kind = "err" THEN PanicAt(r.pos) ELSE r

\* Streamable::parse, by implementation
parse(ty, v) ==
    CASE ty.fam = "prim" -> parse_primitive(ty.of, v)
      [] ty.fam = "bool" -> parse_bool(v)
      [] ty.fam = "string" -> parse_string(v)
      [] ty.fam = "le" -> parse_le(ty.of, v)
      [] ty.fam = "vec" -> parse_vec_primitive(ty.of, v)
      [] ty.fam = "vecle" -> parse_vec_le(ty.of, v)

Next ==
    \/ (Allocate /\ UNCHANGED codecVars)
    \/ (SetOffset /\ UNCHANGED codecVars)
    \/ (IncreaseOffset /\ UNCHANGED codecVars)
    \/ (Clamp /\ UNCHANGED codecVars)
    \/ (Read /\ UNCHANGED codecVars)
    \/ (IndexByte /\ UNCHANGED codecVars)
    \/ (IndexRange /\ UNCHANGED codecVars)
    \/ (IndexMut /\ UNCHANGED codecVars)

Spec == Init /\ [][Next]_vars

(***************************************************************************)
(* The codec as a state machine: a caller assembles a source with parse    *)
(* calls (or is handed one), then decodes it with compose calls that share *)
(* the cursor `position`.  `encoded` lists what was written and where,     *)
(* `result` what each compose call was given and what it returned.         *)
(***************************************************************************)
\* values handed to parse
PrimValues(ty) ==
    CASE ty = "u8" -> {0, 1, 200}
      [] ty = "i8" -> {-128, -1, 5}
      [] ty = "u16" -> {0, 258, 65535}
      [] ty = "i16" -> {-32768, -2, 258}
      [] ty = "i32" -> {-2147483647, -2, 16909060}

ElemValues(ty) ==
    CASE ty = "u8" -> {1, 200}
      [] ty = "i8" -> {-1, 5}
      [] ty = "u16" -> {258, 65535}
      [] ty = "i16" -> {-2, 258}
      [] ty = "i32" -> {-2, 16909060}

LETypes == PrimTypes \cup {"bool"}
LEValues(of) == IF of = "bool" THEN BOOLEAN ELSE PrimValues(of)

\* sources shaped like an encoded address: pad bytes, a tag, n more bytes
AddrLens == {0, 5, 6, 27, 28}
AddrSource(pad, tag, n, fill) == [i \in 1..pad |-> 0] \o <<tag>> \o [i \in 1..n |-> fill]

CodecInit ==
    /\ buffer = <<>>
    /\ offset = 0
    /\ bounds = <<0, 0>>
    /\ view = <<>>
    /\ last = Call("new", "b", <<>>, Returned(<<>>))
    /\ alive = TRUE
    /\ \/ /\ source \in SeqsUpTo(CodecBytes, MaxSrc)
          /\ position \in 0..MaxSrc
       \/ \E pad \in 0..1, tag \in {4, 5, 6}, n \in AddrLens, fill \in AddrFill :
             /\ source = AddrSource(pad, tag, n, fill)
             /\ position = pad
    /\ result = <<>>
    /\ encoded = <<>>

\* the caller appends value.parse() to the source it is assembling
DoParse(ty, v) ==
    /\ result = <<>>
    /\ Len(encoded) < MaxEnc
    /\ IF encoded = <<>> THEN source = <<>> /\ position = 0 ELSE encoded[1].ty = ty
    /\ source' = source \o parse(ty, v)
    /\ encoded' = Append(encoded, [ty |-> ty, val |-> v, at |-> Len(source)])
    /\ UNCHANGED <<position, result>>

\* the caller runs T::compose(&source, &mut position), or T::fcompose when
\* forced: a source it has assembled is decoded as the type it wrote, a
\* source it was handed as any one type; nothing runs after a panic
DoCompose(ty, forced) ==
    /\ Len(result) < MaxOps
    /\ encoded # <<>> => encoded[1].ty = ty
    /\ result # <<>> => (result[Len(result)].kind # "panic" /\ result[1].ty = ty)
    /\ LET r == IF forced THEN fcompose(ty, source, position)
                ELSE compose(ty, source, position)
       IN  /\ result' = Append(result, [ty |-> ty, from |-> position, len |-> Len(source),
                                        forced |-> forced,
                                        kind |-> r.kind, val |-> r.val, pos |-> r.pos])
           /\ position' = r.pos
    /\ UNCHANGED <<source, encoded>>

ParsePrimitive == \E of \in PrimTypes : \E v \in PrimValues(of) : DoParse(Ty("prim", of), v)
ParseBool == \E v \in BOOLEAN : DoParse(Ty("bool", ""), v)
ParseString == \E v \in SeqsUpTo(StrChars, MaxStr) : DoParse(Ty("string", ""), v)
ParseLE == \E of \in LETypes : \E v \in LEValues(of) : DoParse(Ty("le", of), v)
ParseVecPrimitive ==
    \E of \in PrimTypes : \E v \in SeqsUpTo(ElemValues(of), MaxElems) : DoParse(Ty("vec", of), v)
ParseVecLE ==
    \E of \in PrimTypes : \E v \in SeqsUpTo(ElemValues(of), MaxElems) : DoParse(Ty("vecle", of), v)

\* the declared element count of a Vec decode is capped at MaxCount
CountCapped(ty) ==
    CASE ty.fam = "vec" ->
            /\ var_int_units(source, 1) < VarIntMaxUnits
            /\ var_int_from_be_bytes(source).value <= MaxCount
      [] ty.fam = "vecle" ->
            Len(source) >= 2 => be_unsigned(Slice(source, 0, 2)) <= MaxCount
      [] OTHER -> TRUE

ComposeTypes ==
    {Ty("prim", of) : of \in PrimTypes} \cup {Ty("bool", ""), Ty("string", ""), Ty("addr", "")}
    \cup {Ty("le", of) : of \in LETypes}
    \cup {Ty("vec", of) : of \in PrimTypes} \cup {Ty("vecle", of) : of \in PrimTypes}

ComposePrimitive == \E of \in PrimTypes : DoCompose(Ty("prim", of), FALSE)
ComposeBool == DoCompose(Ty("bool", ""), FALSE)
ComposeString == DoCompose(Ty("string", ""), FALSE)
ComposeLE == \E of \in LETypes : DoCompose(Ty("le", of), FALSE)
ComposeSocketAddr == DoCompose(Ty("addr", ""), FALSE)

ComposeVecPrimitive ==
    \E of \in PrimTypes : CountCapped(Ty("vec", of)) /\ DoCompose(Ty("vec", of), FALSE)

ComposeVecLE ==
    \E of \in PrimTypes : CountCapped(Ty("vecle", of)) /\ DoCompose(Ty("vecle", of), FALSE)

\* T::fcompose(&source, &mut position) of any supplied implementation
FCompose ==
    \E ty \in ComposeTypes : CountCapped(ty) /\ DoCompose(ty, TRUE)

CodecNext ==
    \/ (ParsePrimitive /\ UNCHANGED streamVars)
    \/ (ParseBool /\ UNCHANGED streamVars)
    \/ (ParseString /\ UNCHANGED streamVars)
    \/ (ParseLE /\ UNCHANGED streamVars)
    \/ (ParseVecPrimitive /\ UNCHANGED streamVars)
    \/ (ParseVecLE /\ UNCHANGED streamVars)
    \/ (ComposePrimitive /\ UNCHANGED streamVars)
    \/ (ComposeBool /\ UNCHANGED streamVars)
    \/ (ComposeString /\ UNCHANGED streamVars)
    \/ (ComposeLE /\ UNCHANGED streamVars)
    \/ (ComposeSocketAddr /\ UNCHANGED streamVars)
    \/ (ComposeVecPrimitive /\ UNCHANGED streamVars)
    \/ (ComposeVecLE /\ UNCHANGED streamVars)
    \/ (FCompose /\ UNCHANGED streamVars)

CodecSpec == CodecInit /\ [][CodecNext]_vars

(***************************************************************************)
(* Typed sequential reads: impl IBufferRead for BinaryStream,              *)
(* src/src/stream.rs.  A read returns [ok, ret, offset]: whether it        *)
(* returned (or panicked), the value returned and the offset it leaves.    *)
(* ReadSpec runs them on a freshly constructed stream whose buffer is made *)
(* of 16-bit units.                                                        *)
(***************************************************************************)
MaxUnits == 5      \* longest buffer of ReadSpec, in 16-bit units

ReadUnits == {<<0, 0>>, <<0, 1>>, <<0, 129>>, <<255, 3>>}

Rd(ret, off) == [ok |-> TRUE, ret |-> ret, offset |-> off]
RdPanic(off) == [ok |-> FALSE, ret |-> <<>>, offset |-> off]

\* the 2-byte reads: self.buffer[offset..offset + 2] (a Vec slice, which
\* panics past the end), from_be_bytes / from_le_bytes, increase_offset(Some(2))
read_2_bytes(s, signed, le) ==
    IF s.offset + 2 > Len(s.buffer) THEN RdPanic(s.offset)
    ELSE LET bytes == Slice(s.buffer, s.offset, s.offset + 2)
             value == from_be_bytes(IF le THEN reverse_vec(bytes) ELSE bytes, signed)
         IN  IF (s.offset + 2) > s.bounds[2] THEN RdPanic(s.offset)
             ELSE Rd(<<value>>, s.offset + 2)

\* fn read_byte(&mut self) -> u16
read_byte(s) == read_2_bytes(s, FALSE, FALSE)

\* fn read_signed_byte(&mut self) -> i16
read_signed_byte(s) == read_2_bytes(s, TRUE, FALSE)

\* fn read_short_le(&mut self) -> u16
read_short_le(s) == read_2_bytes(s, FALSE, TRUE)

\* fn read_signed_short_le(&mut self) -> i16
read_signed_short_le(s) == read_2_bytes(s, TRUE, TRUE)

\* fn read_bool(&mut self) -> bool ; ret is <<1>> for true
read_bool(s) ==
    LET r == read_byte(s)
    IN  IF ~r.ok THEN r ELSE Rd(<<IF r.ret[1] # 0 THEN 1 ELSE 0>>, r.offset)

\* String::from_utf8 on the bytes of the model, none of which starts a
\* multi-byte sequence: valid exactly when every byte is ASCII
Utf8Valid(bytes) == \A i \in 1..Len(bytes) : bytes[i] < 128

\* fn read_string(&mut self) -> Result<String, FromUtf8Error> ; ret is
\* <<1>> \o bytes for Ok, <<0>> \o bytes for Err.  The offset is increased
\* by self.offset + length.
read_string(s) ==
    LET short == read_byte(s)
    IN  IF ~short.ok THEN short
        ELSE LET length == short.ret[1]
                 s2 == [s EXCEPT !.offset = short.offset]
                 string == index_range(s2, s2.offset, s2.offset + length)
                 amnt == s2.offset + length
             IN  IF ~string.ok THEN RdPanic(s2.offset)
                 ELSE IF (s2.offset + amnt) > s2.bounds[2] THEN RdPanic(s2.offset)
                 ELSE Rd(<<IF Utf8Valid(string.ret) THEN 1 ELSE 0>> \o string.ret,
                         s2.offset + amnt)

\* read_float, read_float_le, read_double, read_double_le, read_long,
\* read_long_le: a 2-byte slice is converted to a 4- or 8-byte array and
\* the conversion is unwrapped
read_wide(s) == RdPanic(s.offset)

\* read_triad, read_triad_le, read_signed_var_int, read_var_long,
\* read_signed_var_long: return 0
read_zero(s) == Rd(<<0>>, s.offset)

RECURSIVE Pow2(_)
Pow2(n) == IF n = 0 THEN 1 ELSE 2 * Pow2(n - 1)

\* bitwise or of two 16-bit patterns
RECURSIVE bit_or(_, _)
bit_or(a, b) ==
    IF a = 0 THEN b
    ELSE IF b = 0 THEN a
    ELSE (IF a % 2 = 1 \/ b % 2 = 1 THEN 1 ELSE 0) + 2 * bit_or(a \div 2, b \div 2)

\* x << n on i16, as a 16-bit pattern: bits shifted past bit 15 are lost
shl16(x, n) == (x * Pow2(n)) % 65536

\* a 16-bit pattern as i16
as_i16(u) == IF u >= 32768 THEN u - 65536 ELSE u

\* the loop of read_var_int: b is the i16 accumulator (as a bit pattern), i
\* the shift.  A shift of 16 or more on i16 panics in a build with overflow
\* checks and shifts by i % 16 in a build without.
RECURSIVE read_var_int_loop(_, _, _, _, _)
read_var_int_loop(s, off, b, i, overflow_checks) ==
    IF ~(i <= 28) THEN Rd(<<as_i16(b)>>, off)
    ELSE LET r == read_signed_byte([s EXCEPT !.offset = off])
         IN  IF ~r.ok THEN RdPanic(off)
             ELSE IF i >= 16 /\ overflow_checks THEN RdPanic(r.offset)
             ELSE LET byte == r.ret[1]
                      b2 == bit_or(b, shl16(byte % 128, i % 16))
                  IN  IF (byte \div 128) % 2 = 0 THEN Rd(<<as_i16(b2)>>, r.offset)
                      ELSE read_var_int_loop(s, r.offset, b2, i + 7, overflow_checks)

\* fn read_var_int(&mut self) -> isize
read_var_int(s, overflow_checks) == read_var_int_loop(s, s.offset, 0, 0, overflow_checks)

ReadInit ==
    /\ \E units \in SeqsUpTo(ReadUnits, MaxUnits) :
          /\ buffer = new(Concat(units)).buffer
          /\ offset = new(Concat(units)).offset
          /\ bounds = new(Concat(units)).bounds
    /\ view = <<>>
    /\ last = Call("new", "b", <<>>, Returned(<<>>))
    /\ alive = TRUE
    /\ source = <<>>
    /\ position = 0
    /\ result = <<>>
    /\ encoded = <<>>

\* a typed read called on b; one that panics leaves the offset where its
\* sub-reads had moved it
TypedRead(op, r) ==
    /\ alive
    /\ IF r.ok
       THEN /\ offset' = r.offset
            /\ last' = Call(op, "b", <<>>, Returned(r.ret))
            /\ UNCHANGED <<buffer, bounds, view, alive>>
       ELSE Panic(op, "b", <<>>, [Self EXCEPT !.offset = r.offset])

ReadByte == TypedRead("read_byte", read_byte(Self))
ReadSignedByte == TypedRead("read_signed_byte", read_signed_byte(Self))
ReadBool == TypedRead("read_bool", read_bool(Self))
ReadString == TypedRead("read_string", read_string(Self))
ReadShort == TypedRead("read_short", read_byte(Self))
ReadSignedShort == TypedRead("read_signed_short", read_signed_byte(Self))
ReadShortLE == TypedRead("read_short_le", read_short_le(Self))
ReadSignedShortLE == TypedRead("read_signed_short_le", read_signed_short_le(Self))
ReadTriad == \E op \in {"read_triad", "read_triad_le"} : TypedRead(op, read_zero(Self))
ReadInt == TypedRead("read_int", read_signed_byte(Self))
ReadIntLE == TypedRead("read_int_le", read_signed_short_le(Self))
ReadWide ==
    \E op \in {"read_float", "read_float_le", "read_double", "read_double_le",
               "read_long", "read_long_le"} :
        TypedRead(op, read_wide(Self))
ReadVarInt ==
    \E overflow_checks \in BOOLEAN : TypedRead("read_var_int", read_var_int(Self, overflow_checks))
ReadZeroVar ==
    \E op \in {"read_signed_var_int", "read_var_long", "read_signed_var_long"} :
        TypedRead(op, read_zero(Self))

ReadNext ==
    \/ (SetOffset /\ UNCHANGED codecVars)
    \/ (ReadByte /\ UNCHANGED codecVars)
    \/ (ReadSignedByte /\ UNCHANGED codecVars)
    \/ (ReadBool /\ UNCHANGED codecVars)
    \/ (ReadString /\ UNCHANGED codecVars)
    \/ (ReadShort /\ UNCHANGED codecVars)
    \/ (ReadSignedShort /\ UNCHANGED codecVars)
    \/ (ReadShortLE /\ UNCHANGED codecVars)
    \/ (ReadSignedShortLE /\ UNCHANGED codecVars)
    \/ (ReadTriad /\ UNCHANGED codecVars)
    \/ (ReadInt /\ UNCHANGED codecVars)
    \/ (ReadIntLE /\ UNCHANGED codecVars)
    \/ (ReadWide /\ UNCHANGED codecVars)
    \/ (ReadVarInt /\ UNCHANGED codecVars)
    \/ (ReadZeroVar /\ UNCHANGED codecVars)

ReadSpec == ReadInit /\ [][ReadNext]_vars

(***************************************************************************)
(* Properties                                                              *)
(***************************************************************************)
Calls == 1..Len(result)

\* C1: in every state of a Cursor Buffer reached from new(bytes) by allocate,
\* set_offset, increase_offset, clamp and read calls that did not panic,
\* bounds.0 <= offset <= bounds.1 <= buffer.length.
C1_BoundsInvariant ==
    alive => (bounds[1] <= offset /\ offset <= bounds[2] /\ bounds[2] <= Len(buffer))

\* the number of bytes the encoding of a decoded value occupies
ConsumedBytes(h) ==
    CASE h.ty.fam = "prim" -> size_of(h.ty.of)
      [] h.ty.fam = "bool" -> 1
      [] h.ty.fam = "string" -> 2 + Len(h.val)
      [] h.ty.fam = "le" -> IF h.ty.of = "bool" THEN 1 ELSE size_of(h.ty.of)
      [] h.ty.fam = "addr" -> IF h.val[1].ver = 4 THEN 7 ELSE 29
      [] h.ty.fam = "vec" -> var_int_units(source, 1) + Len(h.val) * size_of(h.ty.of)
      [] h.ty.fam = "vecle" -> 2 + Len(h.val) * size_of(h.ty.of)

\* C2: after a successful compose of any supplied implementation from cursor
\* p, the cursor is p plus the number of bytes of the encoding consumed,
\* length prefix and every element of a collection included.
C2_CursorAfterCompose ==
    \A i \in Calls :
        result[i].kind = "ok" => result[i].pos = result[i].from + ConsumedBytes(result[i])

\* the value compose returns for an encoded value
Decoded(e) == IF e.ty.fam \in {"prim", "bool", "le"} THEN <<e.val>> ELSE e.val

\* C3: two compose calls sharing a cursor that starts at 0, on the
\* concatenation parse(a) ++ parse(b), return a and then b, the second call
\* starting where the first left the cursor.
C3_TwoConsecutiveDecodes ==
    (/\ Len(encoded) = 2
     /\ Len(result) = 2
     /\ result[1].ty = encoded[1].ty
     /\ result[1].from = 0)
    => (/\ result[1].kind = "ok"
        /\ result[1].val = Decoded(encoded[1])
        /\ result[2].from = result[1].pos
        /\ result[2].kind = "ok"
        /\ result[2].val = Decoded(encoded[2]))

\* C4: for a sequence s of n primitive or LE-wrapped values,
\* compose(parse(s), cursor 0) yields a sequence of exactly n elements.
C4_SequenceLengthFidelity ==
    (/\ Len(encoded) = 1
     /\ encoded[1].ty.fam \in {"vec", "vecle"}
     /\ Len(result) >= 1
     /\ result[1].ty = encoded[1].ty
     /\ result[1].from = 0)
    => (result[1].kind = "ok" /\ Len(result[1].val) = Len(encoded[1].val))

\* a primitive value parsed alone and composed back from cursor 0
PrimitiveRoundTrip ==
    /\ Len(encoded) = 1
    /\ encoded[1].ty.fam = "prim"
    /\ Len(result) >= 1
    /\ result[1].ty = encoded[1].ty
    /\ result[1].from = 0

\* C5: for every primitive type T and value v, T::compose(parse(v), cursor 0)
\* returns Ok(v); parse(v) has exactly size_of(T) bytes (no length prefix),
\* most significant byte first.
C5_PrimitiveRoundTrip ==
    PrimitiveRoundTrip
    => (/\ result[1].kind = "ok"
        /\ result[1].val = <<encoded[1].val>>
        /\ Len(source) = size_of(encoded[1].ty.of)
        /\ \A j \in 1..Len(source) :
              source[j] = (encoded[1].val \div Pow256(Len(source) - j)) % 256)

C5_Witness ==
    /\ PrimitiveRoundTrip
    /\ encoded[1].ty.of = "i16"
    /\ encoded[1].val = -2
    /\ source = <<255, 254>>
    /\ result[1].kind = "ok"
    /\ result[1].val = <<-2>>

\* the source has fewer bytes from the cursor than the type's fixed width or
\* than the length prefix promises
Truncated(h) ==
    CASE h.ty.fam = "prim" -> h.from + size_of(h.ty.of) > h.len
      [] h.ty.fam = "string" ->
            \/ h.from + 2 > h.len
            \/ h.from + 2 + be_unsigned(Slice(source, h.from, h.from + 2)) > h.len
      [] h.ty.fam = "vec" ->
            /\ var_int_from_be_bytes(source).ok
            /\ h.from + var_int_units(source, 1)
                 + var_int_from_be_bytes(source).value * size_of(h.ty.of) > h.len
      [] h.ty.fam = "vecle" ->
            /\ h.len >= 2
            /\ 2 + be_unsigned(Slice(source, 0, 2)) * size_of(h.ty.of) > h.len
      [] OTHER -> FALSE

\* C6: compose on a truncated source returns a decode error; it neither
\* panics nor returns a (partial) result.
C6_TruncatedIsError ==
    \A i \in Calls :
        (~result[i].forced /\ Truncated(result[i])) => result[i].kind = "err"

\* bool::compose on a byte other than 0 and 1, SocketAddr::compose on a tag
\* other than 4 and 6
Malformed(h) ==
    /\ h.from < h.len
    /\ \/ h.ty.fam = "bool" /\ source[h.from + 1] \notin {0, 1}
       \/ h.ty.fam = "addr" /\ source[h.from + 1] \notin {4, 6}

\* C7: malformed fixed-format input (non-boolean byte, unknown address tag)
\* makes compose return Err: no default value, no panic.
C7_MalformedIsError ==
    \A i \in Calls :
        (~result[i].forced /\ Malformed(result[i])) => result[i].kind = "err"

InRange(ty, v) ==
    CASE ty = "u8" -> v \in 0..255
      [] ty = "i8" -> v \in -128..127
      [] ty = "u16" -> v \in 0..65535
      [] ty = "i16" -> v \in -32768..32767
      [] ty = "i32" -> TRUE

\* src[at..at+size_of(T)] is T::parse(v) with its bytes in reverse order
IsReversedEncoding(src, at, ty, v) ==
    \A j \in 1..size_of(ty) : src[at + j] = parse_primitive(ty, v)[size_of(ty) + 1 - j]

\* C8: LE(v).parse() is T::parse(v) byte-reversed; and wherever the source
\* holds, at cursor p (zero or not), the reversed encoding of v,
\* LE<T>::compose returns v and advances the cursor by size_of(T).
C8_EndiannessInversion ==
    /\ \A k \in 1..Len(encoded) :
          (encoded[k].ty.fam = "le" /\ encoded[k].ty.of \in PrimTypes)
          => IsReversedEncoding(source, encoded[k].at, encoded[k].ty.of, encoded[k].val)
    /\ \A i \in Calls :
          (/\ result[i].ty.fam = "le"
           /\ result[i].ty.of \in PrimTypes
           /\ result[i].from + size_of(result[i].ty.of) <= result[i].len)
          => (/\ result[i].kind = "ok"
              /\ result[i].pos = result[i].from + size_of(result[i].ty.of)
              /\ InRange(result[i].ty.of, result[i].val[1])
              /\ IsReversedEncoding(source, result[i].from, result[i].ty.of, result[i].val[1]))

C8_Witness ==
    /\ Len(encoded) = 2
    /\ encoded[2].ty = Ty("le", "i16")
    /\ encoded[2].val = -2
    /\ Len(result) = 2
    /\ result[2].from = 2
    /\ result[2].kind = "ok"
    /\ result[2].val = <<-2>>
    /\ result[2].pos = 4

\* the stream the last indexing operation was applied to
Indexed == IF last.on = "b" THEN Self ELSE view[1]
Outside(s, i) == i < s.bounds[1] \/ i > s.bounds[2]

\* C9: single-byte, range and mutable indexing at a position (or range end
\* point) outside [bounds.0, bounds.1] fails: no byte returned, none modified.
C9_OutsideBoundsFails ==
    (/\ last.op \in {"index", "index_range", "index_mut"}
     /\ \E j \in 1..Len(last.arg) : Outside(Indexed, last.arg[j]))
    => ~last.ok

\* C10: right after c = b.clamp(k), indexing c below k fails and b can still
\* access the indices below k.
C10_ClampFencesViewOnly ==
    (last.op = "clamp" /\ last.ok)
    => \A i \in 0..(last.arg[1] - 1) : ~index(view[1], i).ok /\ index(Self, i).ok

\* C11: a clamp is irreversible on the buffer it is applied to: once
\* clamp(k) has been called no later allocate, set_offset, increase_offset,
\* clamp or read lowers bounds.0 (below k), so no index below k becomes
\* readable again.
C11_ClampIrreversible == [][bounds'[1] >= bounds[1]]_vars

\* C12: set_offset(o) returns true and sets offset to o if and only if
\* o <= bounds.1; otherwise it returns false and leaves buffer, offset and
\* bounds unchanged.
C12_SetOffset ==
    [][last'.op = "set_offset"
       => IF last'.arg[1] <= bounds[2]
          THEN /\ last'.ok
               /\ last'.ret = <<1>>
               /\ offset' = last'.arg[1]
               /\ UNCHANGED <<buffer, bounds>>
          ELSE /\ last'.ok
               /\ last'.ret = <<0>>
               /\ UNCHANGED <<buffer, offset, bounds>>]_vars

C12_Witness ==
    /\ last.op = "set_offset"
    /\ last.arg = <<bounds[2]>>
    /\ last.ret = <<1>>
    /\ offset = bounds[2]
    /\ offset > 0

TwoByteReads ==
    {"read_byte", "read_signed_byte", "read_bool", "read_short", "read_signed_short",
     "read_short_le", "read_signed_short_le", "read_int", "read_int_le"}
ZeroReads ==
    {"read_triad", "read_triad_le", "read_signed_var_int", "read_var_long",
     "read_signed_var_long"}

\* what a variable-length integer at off is: n units up to and including
\* the first one whose bit 0x80 is clear, 5 at most, and the 7-bit groups
\* of those units, lowest first; complete when the buffer holds all n
RECURSIVE VarIntAt(_, _, _)
VarIntAt(buf, off, left) ==
    IF off + 2 > Len(buf) THEN [n |-> 0, value |-> 0, complete |-> FALSE]
    ELSE LET low == buf[off + 2]
         IN  IF low < 128 \/ left = 1
             THEN [n |-> 1, value |-> low % 128, complete |-> TRUE]
             ELSE LET rest == VarIntAt(buf, off + 2, left - 1)
                  IN  [n |-> 1 + rest.n,
                       value |-> (low % 128) + 128 * rest.value,
                       complete |-> rest.complete]

\* the bytes a typed read consumes at the current offset
Consumed(op) ==
    CASE op \in TwoByteReads -> 2
      [] op = "read_string" -> 2 + be_unsigned(Slice(buffer, offset, offset + 2))
      [] op = "read_var_int" -> 2 * VarIntAt(buffer, offset, 5).n
      [] op \in ZeroReads -> 0

\* C13: every typed sequential read that returns advances offset by the
\* number of bytes it consumed from the old offset; read_string advances it
\* by 2 plus the declared byte length.
C13_ReadsAdvanceByConsumed ==
    [][(last'.ok /\ last'.op \in TwoByteReads \cup ZeroReads \cup {"read_string", "read_var_int"})
       => offset' = offset + Consumed(last'.op)]_vars

\* C14: read_var_int terminates at the first unit whose bit 0x80 is clear,
\* or after the shifts 0, 7, 14, 21, 28 (5 units); where the buffer holds
\* those units it returns their 7-bit groups accumulated from low to high,
\* without overflow.
C14_ReadVarInt ==
    [][(last'.op = "read_var_int" /\ VarIntAt(buffer, offset, 5).complete)
       => (/\ last'.ok
           /\ offset' = offset + 2 * VarIntAt(buffer, offset, 5).n
           /\ last'.ret = <<VarIntAt(buffer, offset, 5).value>>)]_vars

====
